---- MODULE Spec2Model ----
(***************************************************************************)
(* A model of the GTC market bot.                                          *)
(*                                                                         *)
(*   gtc_bot_async.py  the long-running bot: two job callbacks,            *)
(*                     daily_summary and instant_alerts, sharing the       *)
(*                     in-memory map last_prices.                          *)
(*   send_once.py      the one-shot script: one report mode per            *)
(*                     invocation, chosen by RUN_MODE.                     *)
(*                                                                         *)
(* Prices are integers (a quote in units of the last displayed digit);     *)
(* a percentage is the exact rational <<numerator, denominator>>.  The     *)
(* quotes the model draws are chosen so that the float arithmetic of the   *)
(* code and the exact arithmetic agree on every comparison.                *)
(***************************************************************************)
EXTENDS Integers, Sequences, FiniteSets, TLC

VARIABLES
    last_prices,   \* context.bot_data["last_prices"]: symbol -> price, None = no entry
    dailyPc,       \* daily_summary: "idle" | "loop"
    dailyIdx,      \* position of daily_summary's for loop in WATCHLIST
    lines,         \* daily_summary's local list `lines`
    alertPc,       \* instant_alerts: "idle" | "loop" | "await"
    alertIdx,      \* position of instant_alerts's for loop in WATCHLIST
    pending,       \* instant_alerts's locals p and the message, while it awaits the send
    alerted,       \* symbols instant_alerts called send_message for, this run
    calls,         \* the price_for calls of the run in progress
    step,          \* what the last step of a job did: its locals s, p, old
    env,           \* send_once: the environment of the invocation
    pc,            \* send_once: "import" | "main" | a mode function | "except" | "exit"
    k,             \* send_once: the position inside the mode function
    loc,           \* send_once: the locals of the mode function
    ran,           \* send_once: the mode functions the entry point called
    requests,      \* send_once: the quote and news requests made
    tg,            \* send_once: the calls of the messaging endpoint
    result         \* send_once: how the process ended

botVars == <<last_prices, dailyPc, dailyIdx, lines, alertPc, alertIdx, pending,
             alerted, calls, step>>

onceVars == <<env, pc, k, loc, ran, requests, tg, result>>

vars == <<botVars, onceVars>>

-----------------------------------------------------------------------------
(* Python values *)

None == -1

Abs(x) == IF x < 0 THEN -x ELSE x

Sign(x) == IF x < 0 THEN -1 ELSE 1

\* Python truthiness of an Optional[float]: None and 0.0 are falsy
Truthy(x) == x # None /\ x # 0

-----------------------------------------------------------------------------
(* gtc_bot_async.py: configuration *)

EURUSD == <<"E", "U", "R", "U", "S", "D">>
XAUUSD == <<"X", "A", "U", "U", "S", "D">>
GBPUSD == <<"G", "B", "P", "U", "S", "D">>
USDJPY == <<"U", "S", "D", "J", "P", "Y">>
BTCUSD == <<"B", "T", "C", "U", "S", "D">>

USD == <<"U", "S", "D">>
JPY == <<"J", "P", "Y">>
INR == <<"I", "N", "R">>
BTC == <<"B", "T", "C">>
ETH == <<"E", "T", "H">>

WATCHLIST == <<EURUSD, XAUUSD, GBPUSD, USDJPY, BTCUSD>>

\* ALERT_MOVE_PCT = 0.5, as the rational AlertMovePctNum / AlertMovePctDen
AlertMovePctNum == 1
AlertMovePctDen == 2

Symbols == {WATCHLIST[i] : i \in 1..Len(WATCHLIST)}

\* The quotes a price source can return: 0 and PriceLo..PriceHi.
PriceLo == 199
PriceHi == 201
Prices == {0} \cup (PriceLo..PriceHi)
Quotes == Prices \cup {None}

-----------------------------------------------------------------------------
(* gtc_bot_async.py: helpers *)

\* str.endswith
endswith(s, suffix) ==
    /\ Len(s) >= Len(suffix)
    /\ SubSeq(s, Len(s) - Len(suffix) + 1, Len(s)) = suffix

\* symbol[:3]
prefix3(s) == SubSeq(s, 1, IF Len(s) < 3 THEN Len(s) ELSE 3)

\* price_for: the price source the symbol is routed to
price_for(symbol) ==
    IF endswith(symbol, USD) /\ Len(symbol) = 6
    THEN "get_fx_price"
    ELSE IF endswith(symbol, USD) /\ prefix3(symbol) \in {BTC, ETH}
    THEN "get_crypto_price"
    ELSE "get_fx_price"

\* fmt: the price with 4 decimals for ...USD, ...JPY, ...INR and 2 otherwise
fmt(symbol, p) ==
    [value |-> p,
     decimals |-> IF endswith(symbol, USD) \/ endswith(symbol, JPY)
                     \/ endswith(symbol, INR) THEN 4 ELSE 2]

\* move = (p - old) / old * 100, as <<numerator, denominator>>, denominator > 0
moveOf(p, old) == <<(p - old) * 100 * Sign(old), Abs(old)>>

\* a strict comparison in place of >=
alertFires_strict(move) == Abs(move[1]) * AlertMovePctDen > AlertMovePctNum * move[2]

\* abs(move) >= ALERT_MOVE_PCT
alertFires(move) == Abs(move[1]) * AlertMovePctDen >= AlertMovePctNum * move[2]

\* arrow = up if move > 0 else down
arrowOf(move) == IF move[1] > 0 THEN "up" ELSE "down"

\* the assignment outside the else: a failed fetch stores None
daily_update_always(prices, s, p) == [prices EXCEPT ![s] = p]

\* daily_summary, lines 59-63: last_prices after the line of s is appended
daily_update(prices, s, p) ==
    IF p = None THEN prices ELSE [prices EXCEPT ![s] = p]

\* every fetched price stored, a "last seen price"
alert_store_lastseen(prices, s, p) ==
    IF p # None THEN [prices EXCEPT ![s] = p] ELSE prices

\* instant_alerts, lines 71-84: last_prices when the loop body reaches the await
\* or its end: the price is stored at once only under `else` (no truthy old)
alert_store(prices, s, p) ==
    IF p # None /\ ~Truthy(prices[s]) THEN [prices EXCEPT ![s] = p] ELSE prices

\* the assignment after the send left out
sent_store_skip(prices, s, p) == prices

\* instant_alerts, line 82: last_prices once the awaited send has returned
sent_store(prices, s, p) == [prices EXCEPT ![s] = p]

Header == [kind |-> "header"]

NoStep == [job |-> "none"]

-----------------------------------------------------------------------------
(* gtc_bot_async.py: daily_summary *)

\* The job queue runs one callback at a time (spec section 1: no concurrency):
\* a callback starts when neither is in progress.
DailyStart ==
    /\ dailyPc = "idle"
    /\ alertPc = "idle"
    /\ dailyPc' = "loop"
    /\ dailyIdx' = 1
    /\ lines' = <<Header>>
    /\ calls' = <<>>
    /\ step' = [job |-> "daily_start"]
    /\ UNCHANGED <<last_prices, alertPc, alertIdx, pending, alerted>>
    /\ UNCHANGED onceVars

\* one iteration of `for s in WATCHLIST`
DailyStep ==
    /\ dailyPc = "loop"
    /\ dailyIdx <= Len(WATCHLIST)
    /\ \E p \in Quotes :
         LET s == WATCHLIST[dailyIdx] IN
         /\ calls' = Append(calls, [sym |-> s, source |-> price_for(s)])
         /\ lines' = Append(lines, IF p = None
                                    THEN [kind |-> "unavailable", sym |-> s]
                                    ELSE [kind |-> "price", sym |-> s,
                                          text |-> fmt(s, p)])
         /\ last_prices' = daily_update(last_prices, s, p)
         /\ step' = [job |-> "daily", sym |-> s, p |-> p, old |-> last_prices[s]]
    /\ dailyIdx' = dailyIdx + 1
    /\ UNCHANGED <<dailyPc, alertPc, alertIdx, pending, alerted>>
    /\ UNCHANGED onceVars

\* await context.bot.send_message(...) after the loop: the callback ends whether
\* the send returns or raises, and its locals go with it
DailySend ==
    /\ dailyPc = "loop"
    /\ dailyIdx > Len(WATCHLIST)
    /\ \E ok \in BOOLEAN :
         step' = [job |-> "daily_send", msg |-> lines, calls |-> calls, ok |-> ok]
    /\ dailyPc' = "idle"
    /\ dailyIdx' = 1
    /\ lines' = <<>>
    /\ calls' = <<>>
    /\ UNCHANGED <<last_prices, alertPc, alertIdx, pending, alerted>>
    /\ UNCHANGED onceVars

-----------------------------------------------------------------------------
(* gtc_bot_async.py: instant_alerts *)

NoPending == [sym |-> <<>>]

AlertStart ==
    /\ dailyPc = "idle"
    /\ alertPc = "idle"
    /\ alertPc' = "loop"
    /\ alertIdx' = 1
    /\ alerted' = <<>>
    /\ calls' = <<>>
    /\ step' = [job |-> "alerts_start"]
    /\ UNCHANGED <<last_prices, dailyPc, dailyIdx, lines, pending>>
    /\ UNCHANGED onceVars

\* one iteration of `for s in WATCHLIST`, up to the await or to the end of the body
AlertStep ==
    /\ alertPc = "loop"
    /\ alertIdx <= Len(WATCHLIST)
    /\ \E p \in Quotes :
         LET s == WATCHLIST[alertIdx]
             old == last_prices[s]
             move == moveOf(p, old)
         IN
         /\ calls' = Append(calls, [sym |-> s, source |-> price_for(s)])
         /\ last_prices' = alert_store(last_prices, s, p)
         /\ IF p # None /\ Truthy(old) /\ alertFires(move)
            THEN /\ pending' = [sym |-> s, p |-> p, arrow |-> arrowOf(move),
                                move |-> move, text |-> fmt(s, p)]
                 /\ alerted' = Append(alerted, s)
                 /\ alertPc' = "await"
                 /\ step' = [job |-> "alerts", sym |-> s, p |-> p, old |-> old,
                             sent |-> TRUE]
                 /\ UNCHANGED alertIdx
            ELSE /\ alertIdx' = alertIdx + 1
                 /\ step' = [job |-> "alerts", sym |-> s, p |-> p, old |-> old,
                             sent |-> FALSE]
                 /\ UNCHANGED <<alertPc, pending, alerted>>
    /\ UNCHANGED <<dailyPc, dailyIdx, lines>>
    /\ UNCHANGED onceVars

\* the awaited send returns: last_prices[s] = p, and the loop goes on
AlertSendReturns ==
    /\ alertPc = "await"
    /\ last_prices' = sent_store(last_prices, pending.sym, pending.p)
    /\ step' = [job |-> "alerts_sent", sym |-> pending.sym, p |-> pending.p,
                old |-> last_prices[pending.sym], ok |-> TRUE]
    /\ pending' = NoPending
    /\ alertIdx' = alertIdx + 1
    /\ alertPc' = "loop"
    /\ UNCHANGED <<dailyPc, dailyIdx, lines, alerted, calls>>
    /\ UNCHANGED onceVars

\* the awaited send raises: the exception leaves instant_alerts
AlertSendRaises ==
    /\ alertPc = "await"
    /\ step' = [job |-> "alerts_sent", sym |-> pending.sym, p |-> pending.p,
                old |-> last_prices[pending.sym], ok |-> FALSE]
    /\ pending' = NoPending
    /\ alertPc' = "idle"
    /\ alertIdx' = 1
    /\ alerted' = <<>>
    /\ calls' = <<>>
    /\ UNCHANGED <<last_prices, dailyPc, dailyIdx, lines>>
    /\ UNCHANGED onceVars

\* the for loop is exhausted: instant_alerts returns
AlertEnd ==
    /\ alertPc = "loop"
    /\ alertIdx > Len(WATCHLIST)
    /\ alertPc' = "idle"
    /\ alertIdx' = 1
    /\ alerted' = <<>>
    /\ calls' = <<>>
    /\ UNCHANGED <<last_prices, dailyPc, dailyIdx, lines, pending, step>>
    /\ UNCHANGED onceVars

-----------------------------------------------------------------------------

BotInit ==
    /\ last_prices = [s \in Symbols |-> None]
    /\ dailyPc = "idle"
    /\ dailyIdx = 1
    /\ lines = <<>>
    /\ alertPc = "idle"
    /\ alertIdx = 1
    /\ pending = NoPending
    /\ alerted = <<>>
    /\ calls = <<>>
    /\ step = NoStep

BotNext ==
    \/ DailyStart
    \/ DailyStep
    \/ DailySend
    \/ AlertStart
    \/ AlertStep
    \/ AlertSendReturns
    \/ AlertSendRaises
    \/ AlertEnd


-----------------------------------------------------------------------------
(* send_once.py: configuration and inputs *)

\* os.getenv returns the default when the variable is not set
Unset == "<unset>"

getenv(value, default) == IF value = Unset THEN default ELSE value

RUN_MODE == getenv(env.RUN_MODE, "alert")

\* ALERT_THRESHOLD_PCT, default 0.5, as the rational AlertThresholdNum / AlertThresholdDen
AlertThresholdNum == 1
AlertThresholdDen == 2

\* the values RUN_MODE is invoked with
RunModeValues == {Unset, "alert", "daily", "weekly", "chart", "", "DAILY"}

Envs == [TOKEN : BOOLEAN, CHAT_ID : BOOLEAN, API_KEY : BOOLEAN,
         NEWS_KEY : BOOLEAN, RUN_MODE : RunModeValues]

\* An API response: a failure (an exception inside the helper's try), or a
\* time series, a JSON object of date -> close, as <<date, close>> items in the
\* order the API wrote them.
Failed == [ok |-> FALSE, items |-> <<>>]
Ok(items) == [ok |-> TRUE, items |-> items]

\* closes listed newest first, delivered newest first / oldest first
Newest(c) == [i \in 1..Len(c) |-> <<Len(c) + 1 - i, c[i]>>]
Oldest(c) == [i \in 1..Len(c) |-> <<i, c[Len(c) + 1 - i]>>]

FxResponses ==
    { Failed,
      Ok(Newest(<<200>>)),
      Ok(Newest(<<201, 200>>)),
      Ok(Oldest(<<200, 201>>)),
      Ok(Newest(<<200, 0>>)),
      Ok(Newest(<<198, 200, 200, 200, 200>>)),
      Ok(Newest(<<201, 201, 201, 201, 201, 200>>)),
      Ok(Oldest(<<200, 202, 202, 202, 202, 201, 150>>)),
      Ok(Newest(<<200, 200, 200, 200, 200, 0>>)) }

CryptoResponses ==
    { Failed,
      Ok(Newest(<<200, 200, 200, 200, 200, 200>>)),
      Ok(Oldest(<<199, 200, 200, 200, 200, 200>>)) }

EquityResponses ==
    { Failed,
      Ok(Newest(<<202, 200, 200, 200, 200, 200>>)),
      Ok(Newest(<<200, 200, 200, 200, 200>>)) }

\* NewsAPI articles; null = a JSON null title
Article(title, source) == [title |-> title, null |-> FALSE, source |-> source]
NullTitle == [title |-> "", null |-> TRUE, source |-> "Wire"]

NewsResponses ==
    { Failed,
      Ok(<<>>),
      Ok(<<Article(" Oil up ", "Wire"), Article("  ", "Wire"), Article("Fed holds", "")>>),
      Ok(<<Article("A", ""), Article("B", ""), Article("C", ""), Article("D", "")>>),
      Ok(<<Article("A", ""), NullTitle>>) }

\* what requests.post does: a 2xx answer, another answer (printed), an exception
SendResults == {"ok", "not_ok", "raised"}

-----------------------------------------------------------------------------
(* send_once.py: helpers *)

\* tuple order of sort(): by date, then by close
TupleGE(x, y) == x[1] > y[1] \/ (x[1] = y[1] /\ x[2] >= y[2])

Range(s) == {s[i] : i \in 1..Len(s)}

RECURSIVE SortDesc(_)
SortDesc(S) ==
    IF S = {} THEN <<>>
    ELSE LET m == CHOOSE x \in S : \A y \in S : TupleGE(x, y)
         IN <<m>> \o SortDesc(S \ {m})

\* out.sort(reverse=True)  # newest first
sort_reverse(items) == SortDesc(Range(items))

\* fx_daily_series: [(date, close)] descending by date, [] on any exception
fx_daily_series(resp) == IF resp.ok THEN sort_reverse(resp.items) ELSE <<>>

crypto_daily(resp) == IF resp.ok THEN sort_reverse(resp.items) ELSE <<>>

equity_daily(resp) == IF resp.ok THEN sort_reverse(resp.items) ELSE <<>>

\* str.strip
strip(title) ==
    CASE title = "  " -> ""
      [] title = " Oil up " -> "Oil up"
      [] OTHER -> title

HeadlineLimit == 3

Take(s, n) == SubSeq(s, 1, IF Len(s) < n THEN Len(s) ELSE n)

RECURSIVE Titled(_)
Titled(articles) ==
    IF articles = <<>> THEN <<>>
    ELSE LET a == Head(articles) IN
         (IF strip(a.title) # "" THEN <<[title |-> strip(a.title), source |-> a.source]>>
          ELSE <<>>) \o Titled(Tail(articles))

\* top_headlines: [] without a key and on any exception (a null title raises
\* inside the try)
top_headlines(newsKey, resp, limit) ==
    IF ~newsKey THEN <<>>
    ELSE IF ~resp.ok THEN <<>>
    ELSE IF \E i \in 1..Len(Take(resp.items, limit)) : resp.items[i].null THEN <<>>
    ELSE Titled(Take(resp.items, limit))

ZeroDivisionError == [raises |-> "ZeroDivisionError"]

\* pct_change: (new - old) / old * 100 as the rational num / den, den > 0
pct_change(new, old) ==
    IF old = 0 THEN ZeroDivisionError
    ELSE [num |-> (new - old) * 100 * Sign(old), den |-> Abs(old)]

\* abs(chg) >= ALERT_THRESHOLD_PCT
crosses(chg) == Abs(chg.num) * AlertThresholdDen >= AlertThresholdNum * chg.den

\* arrow = up if chg >= 0 else down
arrow_of(chg) == IF chg.num >= 0 THEN "up" ELSE "down"

\* fmt_pair_line
fmt_pair_line(name, latest) ==
    IF latest # None
    THEN [kind |-> "pair", name |-> name, na |-> FALSE, latest |-> latest]
    ELSE [kind |-> "pair", name |-> name, na |-> TRUE, latest |-> None]

Line(kind) == [kind |-> kind]

\* the section header appended without the `if headlines` test
headline_lines_always(headlines) ==
    <<Line("headlines")>>
    \o [i \in 1..Len(headlines) |->
          [kind |-> "headline", title |-> headlines[i].title,
           source |-> headlines[i].source]]

\* the optional headlines section of run_daily and run_weekly
headline_lines(headlines) ==
    IF headlines = <<>> THEN <<>>
    ELSE <<Line("headlines")>>
         \o [i \in 1..Len(headlines) |->
               [kind |-> "headline", title |-> headlines[i].title,
                source |-> headlines[i].source]]

\* the locals of the mode functions; series also keeps what run_alert's loop
\* fetched, news how top_headlines ended, exc the exception that left the mode
NoLocals == [quotes |-> <<>>, series |-> <<>>, lines |-> <<>>, fired |-> FALSE,
             headlines |-> <<>>, news |-> "", exc |-> ""]

-----------------------------------------------------------------------------
(* send_once.py: start-up and the entry point *)

\* if not (TOKEN and CHAT_ID and API_KEY): raise SystemExit(...)
Startup ==
    /\ pc = "import"
    /\ IF env.TOKEN /\ env.CHAT_ID /\ env.API_KEY
       THEN pc' = "main" /\ UNCHANGED result
       ELSE pc' = "exit" /\ result' = "SystemExit"
    /\ UNCHANGED <<env, k, loc, ran, requests, tg>>
    /\ UNCHANGED botVars

\* the comparison made case-insensitive
mode_of_anycase(mode) ==
    IF mode \in {"daily", "DAILY"} THEN "run_daily"
    ELSE IF mode = "weekly" THEN "run_weekly"
    ELSE IF mode = "chart" THEN "run_chart"
    ELSE "run_alert"

\* the mode function the if/elif chain of the entry point calls
mode_of(mode) ==
    IF mode = "daily" THEN "run_daily"
    ELSE IF mode = "weekly" THEN "run_weekly"
    ELSE IF mode = "chart" THEN "run_chart"
    ELSE "run_alert"

Dispatch ==
    /\ pc = "main"
    /\ pc' = mode_of(RUN_MODE)
    /\ ran' = Append(ran, mode_of(RUN_MODE))
    /\ k' = 1
    /\ UNCHANGED <<env, loc, requests, tg, result>>
    /\ UNCHANGED botVars

\* tg_send_message / tg_send_photo called from a mode function: one POST; an
\* exception of the POST leaves the mode function
ModeSends(api, text) ==
    \E res \in SendResults :
      /\ tg' = Append(tg, [api |-> api, text |-> text, result |-> res])
      /\ IF res = "raised"
         THEN /\ pc' = "except"
              /\ loc' = [loc EXCEPT !.exc = "RequestException"]
              /\ UNCHANGED result
         ELSE /\ pc' = "exit"
              /\ result' = "ok"
              /\ UNCHANGED loc

\* a handler that runs the mode again in place of reporting the error
HandleException_retry ==
    /\ pc = "except"
    /\ pc' = "main"
    /\ UNCHANGED <<env, k, loc, ran, requests, tg, result>>
    /\ UNCHANGED botVars

\* except Exception as e: tg_send_message("Bot error: e"); raise
HandleException ==
    /\ pc = "except"
    /\ \E res \in SendResults :
         tg' = Append(tg, [api |-> "sendMessage",
                           text |-> <<[kind |-> "bot_error", exc |-> loc.exc]>>,
                           result |-> res])
    /\ pc' = "exit"
    /\ result' = "failed"
    /\ UNCHANGED <<env, k, loc, ran, requests>>
    /\ UNCHANGED botVars

-----------------------------------------------------------------------------
(* send_once.py: run_daily *)

Pairs == <<"EUR/USD", "GBP/USD", "USD/JPY">>

\* eur, gbp, jpy = fx_realtime(...): the rate, or None on any exception
RunDailyQuote ==
    /\ pc = "run_daily"
    /\ k <= Len(Pairs)
    /\ \E rate \in Quotes :
         loc' = [loc EXCEPT !.quotes = Append(@, rate)]
    /\ requests' = Append(requests, <<"CURRENCY_EXCHANGE_RATE", Pairs[k]>>)
    /\ k' = k + 1
    /\ UNCHANGED <<env, pc, ran, tg, result>>
    /\ UNCHANGED botVars

\* headlines = top_headlines(3), in run_daily and in run_weekly
Headlines ==
    /\ \E resp \in NewsResponses :
         loc' = [loc EXCEPT !.headlines = top_headlines(env.NEWS_KEY, resp, HeadlineLimit),
                            !.news = IF ~env.NEWS_KEY THEN "no_key"
                                     ELSE IF resp.ok THEN "fetched" ELSE "failed"]
    /\ requests' = IF env.NEWS_KEY THEN Append(requests, <<"top-headlines", "">>)
                   ELSE requests
    /\ k' = k + 1
    /\ UNCHANGED <<env, pc, ran, tg, result>>

RunDailyHeadlines ==
    /\ pc = "run_daily"
    /\ k = Len(Pairs) + 1
    /\ Headlines
    /\ UNCHANGED botVars

daily_msg(quotes, headlines) ==
    <<Line("daily_title"), Line("now_utc"), Line("blank"),
      fmt_pair_line("EUR/USD", quotes[1]),
      fmt_pair_line("GBP/USD", quotes[2]),
      fmt_pair_line("USD/JPY", quotes[3]),
      fmt_pair_line("XAU/USD", None),
      Line("blank")>> \o headline_lines(headlines)

RunDailySend ==
    /\ pc = "run_daily"
    /\ k = Len(Pairs) + 2
    /\ ModeSends("sendMessage", daily_msg(loc.quotes, loc.headlines))
    /\ UNCHANGED <<env, k, ran, requests>>
    /\ UNCHANGED botVars

-----------------------------------------------------------------------------
(* send_once.py: run_alert *)

alert_line(label, latest, chg) ==
    [kind |-> "alert", name |-> label, latest |-> latest,
     arrow |-> arrow_of(chg), pct |-> [num |-> Abs(chg.num), den |-> chg.den]]

\* one iteration of `for label, (a,b) in pairs`
RunAlertPair ==
    /\ pc = "run_alert"
    /\ k <= Len(Pairs)
    /\ requests' = Append(requests, <<"FX_DAILY", Pairs[k]>>)
    /\ \E resp \in FxResponses :
         LET series == fx_daily_series(resp)
             seen == [loc EXCEPT !.series = Append(@, series)]
         IN
         IF Len(series) < 2
         THEN /\ k' = k + 1
              /\ loc' = seen
              /\ UNCHANGED pc
         ELSE LET latest == series[1][2]
                  prev == series[2][2]
                  chg == pct_change(latest, prev)
              IN
              IF chg = ZeroDivisionError
              THEN /\ pc' = "except"
                   /\ loc' = [seen EXCEPT !.exc = "ZeroDivisionError"]
                   /\ UNCHANGED k
              ELSE IF crosses(chg)
              THEN /\ loc' = [seen EXCEPT !.fired = TRUE,
                                          !.lines = Append(@, alert_line(Pairs[k], latest, chg))]
                   /\ k' = k + 1
                   /\ UNCHANGED pc
              ELSE /\ k' = k + 1
                   /\ loc' = seen
                   /\ UNCHANGED pc
    /\ UNCHANGED <<env, ran, tg, result>>
    /\ UNCHANGED botVars

alert_msg(lns) == <<Line("alert_title"), Line("now_utc"), Line("blank")>> \o lns

\* if fired: tg_send_message(...)
RunAlertSend ==
    /\ pc = "run_alert"
    /\ k = Len(Pairs) + 1
    /\ IF loc.fired
       THEN ModeSends("sendMessage", alert_msg(loc.lines))
       ELSE /\ pc' = "exit"
            /\ result' = "ok"
            /\ UNCHANGED <<loc, tg>>
    /\ UNCHANGED <<env, k, ran, requests>>
    /\ UNCHANGED botVars

-----------------------------------------------------------------------------
(* send_once.py: run_weekly *)

WeeklyNames == <<"EUR/USD", "GBP/USD", "USD/JPY", "BTC/USD", "SPY (S&P500)">>

\* eur, gbp, jpy, btc, spy = ...
RunWeeklyFetch ==
    /\ pc = "run_weekly"
    /\ k <= Len(WeeklyNames)
    /\ \/ /\ k <= 3
          /\ requests' = Append(requests, <<"FX_DAILY", WeeklyNames[k]>>)
          /\ \E resp \in FxResponses :
               loc' = [loc EXCEPT !.series = Append(@, fx_daily_series(resp))]
       \/ /\ k = 4
          /\ requests' = Append(requests, <<"DIGITAL_CURRENCY_DAILY", WeeklyNames[k]>>)
          /\ \E resp \in CryptoResponses :
               loc' = [loc EXCEPT !.series = Append(@, crypto_daily(resp))]
       \/ /\ k = 5
          /\ requests' = Append(requests, <<"TIME_SERIES_DAILY", WeeklyNames[k]>>)
          /\ \E resp \in EquityResponses :
               loc' = [loc EXCEPT !.series = Append(@, equity_daily(resp))]
    /\ k' = k + 1
    /\ UNCHANGED <<env, pc, ran, tg, result>>
    /\ UNCHANGED botVars

\* the previous close, series[1], in place of series[5]
weekly_line_prev(name, series) ==
    IF Len(series) < 6
    THEN [kind |-> "pair", name |-> name, na |-> TRUE]
    ELSE LET latest == series[1][2]
             week_ago == series[2][2]
             chg == pct_change(latest, week_ago)
         IN IF chg = ZeroDivisionError THEN ZeroDivisionError
            ELSE [kind |-> "pair", name |-> name, na |-> FALSE, latest |-> latest,
                  arrow |-> arrow_of(chg), pct |-> [num |-> Abs(chg.num), den |-> chg.den]]

\* weekly_line: n/a under 6 points, else the latest close against series[5]
weekly_line(name, series) ==
    IF Len(series) < 6
    THEN [kind |-> "pair", name |-> name, na |-> TRUE]
    ELSE LET latest == series[1][2]
             week_ago == series[6][2]
             chg == pct_change(latest, week_ago)
         IN IF chg = ZeroDivisionError THEN ZeroDivisionError
            ELSE [kind |-> "pair", name |-> name, na |-> FALSE, latest |-> latest,
                  arrow |-> arrow_of(chg), pct |-> [num |-> Abs(chg.num), den |-> chg.den]]

weekly_lines(series) == [i \in 1..Len(WeeklyNames) |-> weekly_line(WeeklyNames[i], series[i])]

\* msg = [title, now_utc(), "", weekly_line(...) x 5, ""]
RunWeeklyLines ==
    /\ pc = "run_weekly"
    /\ k = Len(WeeklyNames) + 1
    /\ LET lns == weekly_lines(loc.series) IN
       IF \E i \in 1..Len(lns) : lns[i] = ZeroDivisionError
       THEN /\ pc' = "except"
            /\ loc' = [loc EXCEPT !.exc = "ZeroDivisionError"]
            /\ UNCHANGED k
       ELSE /\ loc' = [loc EXCEPT !.lines =
                          <<Line("weekly_title"), Line("now_utc"), Line("blank")>>
                          \o lns \o <<Line("blank")>>]
            /\ k' = k + 1
            /\ UNCHANGED pc
    /\ UNCHANGED <<env, ran, requests, tg, result>>
    /\ UNCHANGED botVars

RunWeeklyHeadlines ==
    /\ pc = "run_weekly"
    /\ k = Len(WeeklyNames) + 2
    /\ Headlines
    /\ UNCHANGED botVars

RunWeeklySend ==
    /\ pc = "run_weekly"
    /\ k = Len(WeeklyNames) + 3
    /\ ModeSends("sendMessage", loc.lines \o headline_lines(loc.headlines))
    /\ UNCHANGED <<env, k, ran, requests>>
    /\ UNCHANGED botVars

-----------------------------------------------------------------------------
(* send_once.py: run_chart *)

ChartSessions == 30

ChartNames == <<"EUR/USD", "BTC/USD", "SPY (S&P500)">>

\* eur, btc, spy = ...[:30]
RunChartFetch ==
    /\ pc = "run_chart"
    /\ k <= Len(ChartNames)
    /\ \/ /\ k = 1
          /\ requests' = Append(requests, <<"FX_DAILY", ChartNames[k]>>)
          /\ \E resp \in FxResponses :
               loc' = [loc EXCEPT !.series = Append(@, Take(fx_daily_series(resp), ChartSessions))]
       \/ /\ k = 2
          /\ requests' = Append(requests, <<"DIGITAL_CURRENCY_DAILY", ChartNames[k]>>)
          /\ \E resp \in CryptoResponses :
               loc' = [loc EXCEPT !.series = Append(@, Take(crypto_daily(resp), ChartSessions))]
       \/ /\ k = 3
          /\ requests' = Append(requests, <<"TIME_SERIES_DAILY", ChartNames[k]>>)
          /\ \E resp \in EquityResponses :
               loc' = [loc EXCEPT !.series = Append(@, Take(equity_daily(resp), ChartSessions))]
    /\ k' = k + 1
    /\ UNCHANGED <<env, pc, ran, tg, result>>
    /\ UNCHANGED botVars

\* add_series: the title with (n/a) for an empty series, else the values oldest first
add_series(title, series) ==
    IF series = <<>> THEN [title |-> title, na |-> TRUE, vals |-> <<>>]
    ELSE [title |-> title, na |-> FALSE,
          vals |-> [i \in 1..Len(series) |-> series[Len(series) + 1 - i][2]]]

RunChartSend ==
    /\ pc = "run_chart"
    /\ k = Len(ChartNames) + 1
    /\ ModeSends("sendPhoto",
                 <<Line("chart_caption"), Line("now_utc")>>
                 \o [i \in 1..Len(ChartNames) |-> add_series(ChartNames[i], loc.series[i])])
    /\ UNCHANGED <<env, k, ran, requests>>
    /\ UNCHANGED botVars

-----------------------------------------------------------------------------
(* The two programs *)

OnceInit ==
    /\ env \in Envs
    /\ pc = "import"
    /\ k = 1
    /\ loc = NoLocals
    /\ ran = <<>>
    /\ requests = <<>>
    /\ tg = <<>>
    /\ result = "running"

DefaultEnv ==
    [TOKEN |-> TRUE, CHAT_ID |-> TRUE, API_KEY |-> TRUE, NEWS_KEY |-> FALSE,
     RUN_MODE |-> Unset]

OnceNext ==
    \/ Startup
    \/ Dispatch
    \/ RunDailyQuote
    \/ RunDailyHeadlines
    \/ RunDailySend
    \/ RunAlertPair
    \/ RunAlertSend
    \/ RunWeeklyFetch
    \/ RunWeeklyLines
    \/ RunWeeklyHeadlines
    \/ RunWeeklySend
    \/ RunChartFetch
    \/ RunChartSend
    \/ HandleException

\* gtc_bot_async.py: the bot, its jobs started in any order
Init == BotInit /\ OnceInit /\ env = DefaultEnv

Next == BotNext

Spec == Init /\ [][Next]_vars

\* send_once.py: one invocation, in any environment
InitOnce == OnceInit /\ BotInit

NextOnce == OnceNext

SpecOnce == InitOnce /\ [][NextOnce]_vars

-----------------------------------------------------------------------------
(* Properties of gtc_bot_async.py, checked under Spec *)

\* position of a watchlist symbol
IndexOf(s) == CHOOSE i \in 1..Len(WATCHLIST) : WATCHLIST[i] = s

NoDuplicates(seq) == \A i, j \in 1..Len(seq) : i # j => seq[i] # seq[j]

\* C1: in instant_alerts, send_message is called for the symbol s of a loop
\* iteration if and only if a price p was fetched, last_prices[s] held a
\* non-zero old, and |(p - old) / old * 100| >= ALERT_MOVE_PCT; no symbol gets
\* two alerts in one run; the arrow is the up arrow exactly when the move is > 0.
C1_AlertIff ==
    /\ step.job = "alerts" =>
         LET p == step.p
             old == step.old
             moved == /\ p # None
                      /\ old # None
                      /\ old # 0
                      /\ Abs(p - old) * 100 * AlertMovePctDen >= AlertMovePctNum * Abs(old)
         IN
         /\ step.sent <=> moved
         /\ step.sent =>
              /\ alertPc = "await"
              /\ pending.sym = step.sym
              /\ pending.p = p
              /\ alerted # <<>>
              /\ alerted[Len(alerted)] = step.sym
              /\ pending.arrow = "up" <=> (p - old) * old > 0
              /\ pending.arrow \in {"up", "down"}
         /\ (~step.sent /\ alertPc # "idle") => \A i \in 1..Len(alerted) : alerted[i] # step.sym
    /\ alertPc = "await" => step.job = "alerts" /\ step.sent
    /\ NoDuplicates(alerted)

\* C1 witness: a move of exactly -0.5% (200 -> 199) has sent a down alert
C1_Witness ==
    /\ step.job = "alerts"
    /\ step.sent
    /\ step.old = 200
    /\ step.p = 199
    /\ pending.arrow = "down"
    /\ Len(alerted) = 2

\* C2 (as claimed): when a run has completed, the symbol its last iteration
\* fetched a price for has that price in last_prices.
C2_LastSeen ==
    (/\ dailyPc = "idle"
     /\ alertPc = "idle"
     /\ \/ step.job = "alerts"
        \/ step.job = "alerts_sent" /\ step.ok
     /\ step.p # None)
    => last_prices[step.sym] = step.p

\* C2 (amended): last_prices holds the reference price of the alert check.
\* daily_summary stores every price it fetches; instant_alerts stores the
\* fetched price when there was no non-zero reference, or once the alert it sent
\* for the symbol has returned, and otherwise leaves the old reference.
C2_Reference ==
    /\ (step.job = "daily" /\ step.p # None) => last_prices[step.sym] = step.p
    /\ (step.job = "alerts" /\ step.p # None) =>
         last_prices[step.sym] =
            IF step.old = None \/ step.old = 0 THEN step.p ELSE step.old
    /\ step.job = "alerts_sent" =>
         last_prices[step.sym] = IF step.ok THEN step.p ELSE step.old

\* C2 witness: a completed instant_alerts run whose last symbol moved by less
\* than the threshold (201 -> 200) and kept the old reference
C2_Witness ==
    /\ alertPc = "idle"
    /\ step.job = "alerts"
    /\ step.old = 201
    /\ step.p = 200
    /\ last_prices[step.sym] = 201

\* C5: daily_summary calls price_for once per watchlist symbol, in watchlist
\* order, then sends one message: the header and one line per symbol in that
\* order, the formatted price of a fetched symbol and "data unavailable" for a
\* failed one; a fetched price is stored in last_prices, a failure leaves the
\* entry as it was.
C5_DailySummary ==
    /\ dailyPc = "loop" =>
         /\ step.job \in {"daily_start", "daily"}
         /\ Len(calls) = dailyIdx - 1
         /\ Len(lines) = dailyIdx
         /\ lines[1] = Header
         /\ \A i \in 1..Len(calls) : calls[i].sym = WATCHLIST[i]
    /\ step.job = "daily" =>
         LET i == IndexOf(step.sym) IN
         /\ dailyPc = "loop"
         /\ dailyIdx = i + 1
         /\ lines[i + 1].sym = step.sym
         /\ IF step.p = None
            THEN /\ lines[i + 1].kind = "unavailable"
                 /\ last_prices[step.sym] = step.old
            ELSE /\ lines[i + 1].kind = "price"
                 /\ lines[i + 1].text.value = step.p
                 /\ lines[i + 1].text.decimals = 4
                 /\ last_prices[step.sym] = step.p
    /\ step.job = "daily_send" =>
         /\ dailyPc = "idle"
         /\ Len(step.calls) = Len(WATCHLIST)
         /\ \A i \in 1..Len(WATCHLIST) : step.calls[i].sym = WATCHLIST[i]
         /\ Len(step.msg) = Len(WATCHLIST) + 1
         /\ step.msg[1] = Header
         /\ \A i \in 1..Len(WATCHLIST) :
              /\ step.msg[i + 1].sym = WATCHLIST[i]
              /\ step.msg[i + 1].kind \in {"price", "unavailable"}
              /\ step.msg[i + 1].kind = "price" =>
                   last_prices[WATCHLIST[i]] = step.msg[i + 1].text.value

\* C5 witness: a summary was sent with EURUSD unavailable and XAUUSD priced,
\* and EURUSD still has the price of an earlier run
C5_Witness ==
    /\ step.job = "daily_send"
    /\ step.msg[2].kind = "unavailable"
    /\ step.msg[3].kind = "price"
    /\ step.msg[3].text.value = 200
    /\ last_prices[EURUSD] = 201

\* C8: in instant_alerts a failed fetch sends nothing, leaves last_prices[s] as
\* it was, and the loop goes on to the next symbol; last_prices[s] is written
\* only with a fetched price, and only when there was no non-zero reference or
\* the alert sent for s has returned; a send that raises leaves the reference.
C8_Frame ==
    /\ [](/\ (step.job = "alerts" /\ step.p = None) =>
               /\ ~step.sent
               /\ last_prices[step.sym] = step.old
               /\ alertPc # "await"
               /\ alertPc = "loop" =>
                    /\ alertIdx = IndexOf(step.sym) + 1
                    /\ \A i \in 1..Len(alerted) : alerted[i] # step.sym
          /\ (step.job = "alerts_sent" /\ ~step.ok) =>
               /\ last_prices[step.sym] = step.old
               /\ alertPc = "idle")
    /\ [][alertPc # "idle" =>
            \A s \in Symbols :
              last_prices'[s] # last_prices[s] =>
                /\ step'.job \in {"alerts", "alerts_sent"}
                /\ step'.sym = s
                /\ step'.p # None
                /\ last_prices'[s] = step'.p
                /\ \/ last_prices[s] = None
                   \/ last_prices[s] = 0
                   \/ step'.job = "alerts_sent" /\ step'.ok]_vars

\* C8 witness: the send for a symbol raised and its reference is the old one
C8_Witness ==
    /\ step.job = "alerts_sent"
    /\ ~step.ok
    /\ step.p # step.old
    /\ last_prices[step.sym] = step.old
    /\ step.sym = GBPUSD

\* C9 (as claimed): a symbol that ends in USD and starts with BTC or ETH is
\* priced by get_crypto_price, every other symbol by get_fx_price.
C9_Routing ==
    \A i \in 1..Len(calls) :
      LET s == calls[i].sym
          crypto == /\ Len(s) >= 3
                    /\ SubSeq(s, Len(s) - 2, Len(s)) = <<"U", "S", "D">>
                    /\ SubSeq(s, 1, 3) \in {<<"B", "T", "C">>, <<"E", "T", "H">>}
      IN calls[i].source = IF crypto THEN "get_crypto_price" ELSE "get_fx_price"

-----------------------------------------------------------------------------
(* Properties of send_once.py, checked under SpecOnce *)

Configured == env.TOKEN /\ env.CHAT_ID /\ env.API_KEY

\* the mode function the claims expect for the value of RUN_MODE
Expected ==
    CASE env.RUN_MODE = "daily" -> "run_daily"
      [] env.RUN_MODE = "weekly" -> "run_weekly"
      [] env.RUN_MODE = "chart" -> "run_chart"
      [] OTHER -> "run_alert"

IsReport(m) == m.text[1].kind \in {"daily_title", "weekly_title"}
IsBotError(m) == m.text[1].kind = "bot_error"

Reports == {i \in 1..Len(tg) : IsReport(tg[i])}
BotErrors == {i \in 1..Len(tg) : IsBotError(tg[i])}

\* a series of at least 6 points whose 6th-newest close is 0
ZeroWeekAgo == \E i \in 1..Len(loc.series) :
                  Len(loc.series[i]) >= 6 /\ loc.series[i][6][2] = 0

\* C3 (as claimed): when run_alert returns, it has sent exactly one message if
\* some pair with at least two points moved by more than ALERT_THRESHOLD_PCT
\* and none otherwise, and the message lists exactly those pairs, in the order
\* EUR/USD, GBP/USD, USD/JPY.
C3_AlertStrict ==
    (pc = "exit" /\ ran = <<"run_alert">> /\ result = "ok") =>
      LET s == loc.series
          Crossed(i) ==
              /\ Len(s[i]) >= 2
              /\ s[i][2][2] # 0
              /\ Abs(s[i][1][2] - s[i][2][2]) * 100 * AlertThresholdDen
                   > AlertThresholdNum * Abs(s[i][2][2])
          crossing == {i \in 1..Len(Pairs) : Crossed(i)}
      IN
      IF crossing = {} THEN tg = <<>>
      ELSE /\ Len(tg) = 1
           /\ tg[1].api = "sendMessage"
           /\ LET body == SubSeq(tg[1].text, 4, Len(tg[1].text)) IN
              /\ {body[j].name : j \in 1..Len(body)} = {Pairs[i] : i \in crossing}
              /\ Len(body) = Cardinality(crossing)
              /\ \A i, j \in crossing :
                   i < j => \E a, b \in 1..Len(body) :
                              a < b /\ body[a].name = Pairs[i] /\ body[b].name = Pairs[j]

\* C4 (as claimed): a configured run in daily or weekly mode ends with exactly
\* one call of the messaging endpoint, the report.
C4_ExactlyOne ==
    (pc = "exit" /\ Configured /\ env.RUN_MODE \in {"daily", "weekly"}) =>
      Len(tg) = 1 /\ IsReport(tg[1])

\* C4 (amended): no failed quote or news fetch prevents or duplicates the
\* report: a configured run in daily or weekly mode sends the report exactly
\* once, first, unless pct_change divides by a zero week-ago close (weekly
\* only), where no report is sent and one Bot error message is; the endpoint is
\* called a second time, for the Bot error message, exactly when the send of the
\* report raised.  A None quote or an empty series is rendered n/a, and the
\* headlines section is there only when headlines were fetched.
C4_OneReport ==
    (pc = "exit" /\ Configured /\ env.RUN_MODE \in {"daily", "weekly"}) =>
      IF loc.exc = "ZeroDivisionError"
      THEN /\ env.RUN_MODE = "weekly"
           /\ ZeroWeekAgo
           /\ Reports = {}
           /\ Len(tg) = 1
           /\ IsBotError(tg[1])
      ELSE /\ Reports = {1}
           /\ Len(tg) = IF tg[1].result = "raised" THEN 2 ELSE 1
           /\ Len(tg) = 2 => IsBotError(tg[2])
           /\ LET text == tg[1].text IN
              /\ env.RUN_MODE = "daily" =>
                   /\ \A i \in 1..3 : text[3 + i].na <=> (loc.quotes[i] = None)
                   /\ text[7].na
              /\ env.RUN_MODE = "weekly" =>
                   \A i \in 1..5 : loc.series[i] = <<>> => text[3 + i].na
              /\ (\E j \in 1..Len(text) : text[j].kind \in {"headlines", "headline"})
                   <=> loc.headlines # <<>>
              /\ loc.news \in {"no_key", "failed"} => loc.headlines = <<>>
              /\ loc.news = "no_key" <=> ~env.NEWS_KEY

\* C4 witness: a daily run whose three quotes and whose news fetch all failed
\* has sent its one message of eight lines
C4_Witness ==
    /\ pc = "exit"
    /\ env.RUN_MODE = "daily"
    /\ loc.quotes = <<None, None, None>>
    /\ loc.news = "failed"
    /\ Len(tg) = 1
    /\ tg[1].result = "ok"
    /\ Len(tg[1].text) = 8

\* C6 (as claimed): every invocation has run exactly the one mode function
\* RUN_MODE selects when it ends.
C6_OneMode == pc = "exit" => ran = <<Expected>>

\* C6 (amended): an invocation that passes the start-up check of TOKEN,
\* CHAT_ID and API_KEY runs exactly the one mode function RUN_MODE selects; one
\* that fails it exits before the entry point and runs none.
C6_Dispatch ==
    /\ Len(ran) <= 1
    /\ pc \in {"run_daily", "run_weekly", "run_chart", "run_alert"} => ran = <<pc>>
    /\ pc \in {"run_daily", "run_weekly", "run_chart", "run_alert", "except"} =>
         ran = <<Expected>> /\ Configured
    /\ pc = "exit" =>
         IF Configured
         THEN ran = <<Expected>> /\ result \in {"ok", "failed"}
         ELSE ran = <<>> /\ result = "SystemExit" /\ tg = <<>> /\ requests = <<>>

\* C6 witness: RUN_MODE=DAILY, not one of the three names, ran run_alert
C6_Witness ==
    /\ pc = "exit"
    /\ env.RUN_MODE = "DAILY"
    /\ ran = <<"run_alert">>
    /\ result = "ok"

\* C7: when the mode function raises, the entry point calls the messaging
\* endpoint once more, with the Bot error message, and the run ends in failure;
\* the mode is not run again, no quote or news request is made twice, and the
\* messaging endpoint is called at most twice.
C7_ErrorPath ==
    /\ Len(ran) <= 1
    /\ NoDuplicates(requests)
    /\ Len(tg) <= 2
    /\ pc = "except" => loc.exc # "" /\ BotErrors = {} /\ result = "running"
    /\ (pc = "exit" /\ loc.exc # "") => BotErrors = {Len(tg)} /\ result = "failed"
    /\ loc.exc = "" => BotErrors = {} /\ result # "failed"

\* C7 witness: run_alert divided by a zero previous close at its second pair;
\* one Bot error message, two quote requests, a failed run
C7_Witness ==
    /\ pc = "exit"
    /\ ran = <<"run_alert">>
    /\ loc.exc = "ZeroDivisionError"
    /\ result = "failed"
    /\ Len(tg) = 1
    /\ Len(requests) = 2

\* the lines of run_weekly have been evaluated
WeeklyEvaluated ==
    ran = <<"run_weekly">> /\ (k > Len(WeeklyNames) + 1 \/ loc.exc = "ZeroDivisionError")

NewestFirst(series) == \A j \in 1..(Len(series) - 1) : series[j][1] > series[j + 1][1]

\* the line of instrument i is n/a under 6 points and else reports the newest
\* close, |change| against the 6th-newest close, and the up arrow iff change >= 0
WeeklyLineOK(i) ==
    LET s == loc.series[i]
        ln == loc.lines[3 + i]
    IN
    /\ ln.name = WeeklyNames[i]
    /\ ln.na <=> Len(s) < 6
    /\ Len(s) >= 6 =>
         /\ ln.latest = s[1][2]
         /\ ln.pct = [num |-> Abs((s[1][2] - s[6][2]) * 100), den |-> Abs(s[6][2])]
         /\ ln.arrow = "up" <=> (s[1][2] - s[6][2]) * s[6][2] >= 0
         /\ ln.arrow \in {"up", "down"}

\* C10 (as claimed): once run_weekly has evaluated its lines, every instrument
\* has its line, n/a or the change against the 6th-newest close.
C10_WeeklyLine ==
    WeeklyEvaluated =>
      /\ Len(loc.lines) = Len(WeeklyNames) + 4
      /\ \A i \in 1..Len(WeeklyNames) : WeeklyLineOK(i)

\* C10 (amended): each series is newest first; when no series of 6 or more
\* points has a zero 6th-newest close, every line is n/a exactly under 6 points
\* and else reports the newest close and the change against the 6th-newest
\* close; with such a zero close weekly_line raises ZeroDivisionError and
\* run_weekly builds no line and sends no recap.
C10_WeeklyLineNonZero ==
    /\ pc = "run_weekly" => \A i \in 1..Len(loc.series) : NewestFirst(loc.series[i])
    /\ WeeklyEvaluated =>
         IF ZeroWeekAgo
         THEN loc.lines = <<>> /\ loc.exc = "ZeroDivisionError" /\ Reports = {}
         ELSE /\ Len(loc.lines) = Len(WeeklyNames) + 4
              /\ \A i \in 1..Len(WeeklyNames) : WeeklyLineOK(i)

\* C10 witness: EUR/USD fell from 201 to 200 over five sessions (down arrow),
\* GBP/USD has five points (n/a), BTC/USD is flat (up arrow, 0%)
C10_Witness ==
    /\ WeeklyEvaluated
    /\ Len(loc.lines) = 9
    /\ Len(loc.series[1]) = 7
    /\ ~loc.lines[4].na
    /\ loc.lines[4].arrow = "down"
    /\ loc.lines[4].pct = [num |-> 100, den |-> 201]
    /\ Len(loc.series[2]) = 5
    /\ loc.lines[5].na
    /\ ~loc.lines[7].na
    /\ loc.lines[7].arrow = "up"
    /\ loc.lines[7].pct.num = 0

====
